---- MODULE Spec2Model ----
(***************************************************************************)
(* Batch DOCX -> PDF job orchestrator (app/routers/jobs.py, app/tasks.py). *)
(*                                                                         *)
(* State: the committed rows of the jobs and job_files tables, the         *)
(* per-job storage directory, the broker queue of task messages, the       *)
(* chords (fan-in barriers) created by process_incoming_job, and the       *)
(* position of each running process_incoming_job between its commits.      *)
(* Every step below ends at a db.commit(), a task return or a raise, so    *)
(* every state is a committed state other workers and readers can see.     *)
(***************************************************************************)
EXTENDS Integers, Sequences, FiniteSets, TLC

VARIABLES
    jobs,        \* jobs table: job id (1..n) -> [status, finished_at, zip_path]
    job_files,   \* job_files table: file id (1..n) -> [job_id, filename, status, error_message]
    storage,     \* job id -> [upload, input, output, result]: STORAGE_PATH/<job_id>/...
    queue,       \* task messages held by the broker (unacknowledged)
    chords,      \* chord id -> [job_id, header, results, fired]
    returned,    \* results of finished convert_file_task runs not yet counted by their chord
    pij,         \* job id -> locals of the running process_incoming_job
    outcome,     \* file id -> converter outcome of the unit's latest run ("none" before)
    archive_runs,\* job id -> number of archive_job_task executions started
    raised,      \* exceptions raised inside task runs: [task, job_id, exc, caught]
    clock,       \* datetime.now(): strictly increasing reading
    redeliveries \* number of task messages the broker delivered a second time

vars == <<jobs, job_files, storage, queue, chords, returned, pij, outcome,
          archive_runs, raised, clock, redeliveries>>

(***************************************************************************)
(* Bounds of the model.                                                    *)
(***************************************************************************)
MaxJobs == 1
MaxRedeliver == 1
\* Jobs submitted in the specification of concurrent jobs.
MaxConcurrentJobs == 2

NULL == "NULL"
\* result.zip of a job directory: absent, or a ZIP file with member names.
NoFile == [present |-> FALSE, members |-> {}]
ZipFileOf(names) == [present |-> TRUE, members |-> names]

(***************************************************************************)
(* Strings are sequences of characters, so that lower(), startswith() and  *)
(* endswith() are computed and not assumed.                                *)
(***************************************************************************)
LowerChar(c) ==
    CASE c = "A" -> "a" [] c = "B" -> "b" [] c = "C" -> "c" [] c = "D" -> "d"
      [] c = "O" -> "o" [] c = "X" -> "x" [] OTHER -> c

Lower(s) == [i \in 1..Len(s) |-> LowerChar(s[i])]

StartsWith(s, p) == Len(s) >= Len(p) /\ SubSeq(s, 1, Len(p)) = p

EndsWith(s, p) == Len(s) >= Len(p) /\ SubSeq(s, Len(s) - Len(p) + 1, Len(s)) = p

DotDocx == <<".", "d", "o", "c", "x">>
DotPdf == <<".", "p", "d", "f">>
LockMarker == <<"~", "$">>

\* Index of the last "." of s, 0 when there is none.
LastDot(s) ==
    LET dots == {i \in 1..Len(s) : s[i] = "."}
    IN IF dots = {} THEN 0 ELSE CHOOSE i \in dots : \A k \in dots : k <= i

\* The converter writes <stem>.pdf into the output directory (--convert-to pdf).
PdfName(filename) ==
    LET d == LastDot(filename)
    IN (IF d = 0 THEN filename ELSE SubSeq(filename, 1, d - 1)) \o DotPdf

(***************************************************************************)
(* The uploaded archives the model submits.                                *)
(***************************************************************************)
a_docx == <<"a", ".", "d", "o", "c", "x">>
b_docx == <<"b", ".", "d", "o", "c", "x">>
c_txt == <<"c", ".", "t", "x", "t">>
x_png == <<"x", ".", "p", "n", "g">>
B_DOCX == <<"B", ".", "D", "O", "C", "X">>
lock_b_docx == <<"~", "$", "b", ".", "d", "o", "c", "x">>

Archives ==
    { [entries |-> {a_docx, b_docx, c_txt}, corrupt |-> FALSE],
      [entries |-> {x_png, c_txt}, corrupt |-> FALSE],
      [entries |-> {}, corrupt |-> FALSE],
      [entries |-> {B_DOCX, lock_b_docx}, corrupt |-> FALSE],
      [entries |-> {a_docx}, corrupt |-> TRUE] }

(***************************************************************************)
(* Rows, messages and initial state.                                       *)
(***************************************************************************)
JobIds == 1..Len(jobs)
FileIds == 1..Len(job_files)

\* Column defaults of Job: status PENDING, finished_at and zip_path nullable.
NewJob == [status |-> "PENDING", finished_at |-> NULL, zip_path |-> NULL]

\* JobFile(job_id=..., filename=..., status=PENDING); error_message nullable.
NewJobFile(job_id, filename) ==
    [job_id |-> job_id, filename |-> filename, status |-> "PENDING",
     error_message |-> NULL]

Msg(task, job_id, db_file_id, chord, results) ==
    [task |-> task, job_id |-> job_id, db_file_id |-> db_file_id,
     chord |-> chord, results |-> results]

ProcessMsg(j) == Msg("process_incoming_job", j, 0, 0, <<>>)
ConvertMsg(j, f, c) == Msg("convert_file_task", j, f, c, <<>>)
ArchiveMsg(j, c, results) == Msg("archive_job_task", j, 0, c, results)

Exc(task, job_id, exc, caught) ==
    [task |-> task, job_id |-> job_id, exc |-> exc, caught |-> caught]

IdlePij == [pc |-> "idle", docx_files |-> <<>>, conversion_tasks |-> <<>>]

Init ==
    /\ jobs = <<>>
    /\ job_files = <<>>
    /\ storage = <<>>
    /\ queue = {}
    /\ chords = <<>>
    /\ returned = {}
    /\ pij = <<>>
    /\ outcome = <<>>
    /\ archive_runs = <<>>
    /\ raised = {}
    /\ clock = 1
    /\ redeliveries = 0

(***************************************************************************)
(* POST /api/v1/jobs: save upload.zip, commit the Job row, enqueue         *)
(* process_incoming_job.  job_id is a fresh uuid4: the next unused id.     *)
(***************************************************************************)
submit_job_upto(archive, max_jobs) ==
    /\ Len(jobs) < max_jobs
    /\ jobs' = Append(jobs, NewJob)
    /\ storage' = Append(storage, [upload |-> archive, input |-> {},
                                   output |-> {}, result |-> NoFile])
    /\ pij' = Append(pij, IdlePij)
    /\ archive_runs' = Append(archive_runs, 0)
    /\ queue' = queue \cup {ProcessMsg(Len(jobs) + 1)}
    /\ UNCHANGED <<job_files, chords, returned, outcome, raised, clock, redeliveries>>

submit_job(archive) == submit_job_upto(archive, MaxJobs)

(***************************************************************************)
(* process_incoming_job                                                    *)
(***************************************************************************)
\* f.lower().endswith(".docx") and not f.startswith("~$")
IsDocx(f) == EndsWith(Lower(f), DotDocx) /\ ~StartsWith(f, LockMarker)

\* The list comprehension over os.listdir(input_dir), as a set.
DocxFiles(input) == {f \in input : IsDocx(f)}

\* os.listdir gives the names in arbitrary order: every ordering of S.
Orderings(S) ==
    {s \in [1..Cardinality(S) -> S] : \A i, k \in 1..Cardinality(S) : s[i] = s[k] => i = k}

SetStatus(j, st) == [jobs EXCEPT ![j].status = st]

\* Lines 23-56: query the Job, extract the archive, list the DOCX files.  Ends at
\* the commit of FAILED (no DOCX file, or an exception of the extraction) or
\* enters the loop with job.status = IN_PROGRESS pending in the session.
pij_extract(j) ==
    /\ ProcessMsg(j) \in queue
    /\ pij[j].pc = "idle"
    /\ LET zip == storage[j].upload
           input == storage[j].input \cup zip.entries
       IN IF zip.corrupt
          THEN \* zipfile.BadZipFile -> except branch, lines 75-78
               /\ jobs' = SetStatus(j, "FAILED")
               /\ raised' = raised \cup {Exc("process_incoming_job", j, "BadZipFile", TRUE)}
               /\ queue' = queue \ {ProcessMsg(j)}
               /\ UNCHANGED <<storage, pij>>
          ELSE /\ storage' = [storage EXCEPT ![j].input = input]
               /\ IF DocxFiles(input) = {}
                  THEN \* lines 49-52
                       /\ jobs' = SetStatus(j, "FAILED")
                       /\ queue' = queue \ {ProcessMsg(j)}
                       /\ UNCHANGED pij
                  ELSE /\ \E order \in Orderings(DocxFiles(input)) :
                              pij' = [pij EXCEPT ![j] =
                                        [pc |-> "loop", docx_files |-> order,
                                         conversion_tasks |-> <<>>]]
                       /\ UNCHANGED <<jobs, queue>>
               /\ UNCHANGED raised
    /\ UNCHANGED <<job_files, chords, returned, outcome, archive_runs,
                   clock, redeliveries>>

\* Lines 58-67, one iteration: add the JobFile and commit (the first commit also
\* writes job.status = IN_PROGRESS), then append the task signature.
pij_loop(j) ==
    /\ pij[j].pc = "loop"
    /\ LET filename == Head(pij[j].docx_files)
           rest == Tail(pij[j].docx_files)
           id == Len(job_files) + 1
       IN /\ job_files' = Append(job_files, NewJobFile(j, filename))
          /\ outcome' = Append(outcome, "none")
          /\ jobs' = SetStatus(j, "IN_PROGRESS")
          /\ pij' = [pij EXCEPT ![j] =
                       [pc |-> IF rest = <<>> THEN "dispatch" ELSE "loop",
                        docx_files |-> rest,
                        conversion_tasks |-> Append(pij[j].conversion_tasks, id)]]
    /\ UNCHANGED <<storage, queue, chords, returned, archive_runs, raised, clock,
                   redeliveries>>

\* The header of the chord: the signatures collected by the loop.
ChordHeader(conversion_tasks) == conversion_tasks

NewChord(j, header) ==
    [job_id |-> j, header |-> header,
     results |-> [f \in {header[i] : i \in 1..Len(header)} |-> "NONE"],
     fired |-> FALSE]

\* Lines 69-80: chord(conversion_tasks)(callback).  The broker accepts the chord
\* (one convert_file_task message per signature) or the call raises with no
\* message sent and the except branch commits FAILED.
pij_dispatch(j) ==
    /\ pij[j].pc = "dispatch"
    /\ \E broker_ok \in BOOLEAN :
         IF broker_ok
         THEN LET header == ChordHeader(pij[j].conversion_tasks)
                  c == Len(chords) + 1
              IN /\ chords' = Append(chords, NewChord(j, header))
                 /\ queue' = (queue \ {ProcessMsg(j)})
                               \cup {ConvertMsg(j, header[i], c) : i \in 1..Len(header)}
                 /\ UNCHANGED <<jobs, raised>>
         ELSE /\ jobs' = SetStatus(j, "FAILED")
              /\ raised' = raised \cup
                             {Exc("process_incoming_job", j, "OperationalError", TRUE)}
              /\ queue' = queue \ {ProcessMsg(j)}
              /\ UNCHANGED chords
    /\ pij' = [pij EXCEPT ![j] = IdlePij]
    /\ UNCHANGED <<job_files, storage, returned, outcome, archive_runs,
                   clock, redeliveries>>

(***************************************************************************)
(* convert_file_task                                                       *)
(***************************************************************************)
\* What subprocess.run(cmd, timeout=120) can do: exit 0 having written the PDF,
\* exit 0 without an output file, exit non-zero, exceed the timeout
\* (TimeoutExpired), or fail to start (any other exception).
Outcomes == {"exit0_pdf", "exit0_nopdf", "nonzero", "timeout", "error"}

ConversionFailedMsg == "LibreOffice conversion failed"
TimedOutMsg == "Conversion timed out"
\* str(e) of the exception subprocess.run raised.
LaunchErrorMsg == "[Errno 2] No such file or directory: 'libreoffice'"

\* ConvertedRow without the assignments of the TimeoutExpired branch.
ConvertedRowTimeoutUnset(row, out) ==
    CASE out \in {"exit0_pdf", "exit0_nopdf"} ->
            [row EXCEPT !.status = "COMPLETED"]
      [] out = "nonzero" ->
            [row EXCEPT !.status = "FAILED", !.error_message = ConversionFailedMsg]
      [] out = "timeout" -> row
      [] OTHER ->
            [row EXCEPT !.status = "FAILED", !.error_message = LaunchErrorMsg]

\* ConvertedRow without the assignments of the last except branch.
ConvertedRowErrorUnset(row, out) ==
    CASE out \in {"exit0_pdf", "exit0_nopdf"} ->
            [row EXCEPT !.status = "COMPLETED"]
      [] out = "nonzero" ->
            [row EXCEPT !.status = "FAILED", !.error_message = ConversionFailedMsg]
      [] out = "timeout" ->
            [row EXCEPT !.status = "FAILED", !.error_message = TimedOutMsg]
      [] OTHER -> row

\* Lines 129-142: the JobFile row as the session holds it after the outcome.
ConvertedRow(row, out) ==
    CASE out \in {"exit0_pdf", "exit0_nopdf"} ->
            [row EXCEPT !.status = "COMPLETED"]
      [] out = "nonzero" ->
            [row EXCEPT !.status = "FAILED", !.error_message = ConversionFailedMsg]
      [] out = "timeout" ->
            [row EXCEPT !.status = "FAILED", !.error_message = TimedOutMsg]
      [] OTHER ->
            [row EXCEPT !.status = "FAILED", !.error_message = LaunchErrorMsg]

\* The scratch directory keyed by the job only.
UserInstallationPerJob(job_id, db_file_id) ==
    "file:///tmp/lo_" \o ToString(job_id)

\* Line 109: f"-env:UserInstallation=file:///tmp/lo_{job_id}_{db_file_id}".
\* job_id is formatted as ZipPath formats it; db_file_id is the integer key.
UserInstallation(job_id, db_file_id) ==
    "file:///tmp/lo_" \o ToString(job_id) \o "_" \o ToString(db_file_id)

\* convert_file_task that also marks the Job FAILED when its unit fails.
convert_file_task_fails_job(m) ==
    /\ m \in queue
    /\ m.task = "convert_file_task"
    /\ \E out \in Outcomes :
         LET f == m.db_file_id
             row == ConvertedRow(job_files[f], out)
         IN /\ job_files' = [job_files EXCEPT ![f] = row]
            /\ outcome' = [outcome EXCEPT ![f] = out]
            /\ jobs' = IF row.status = "FAILED" THEN SetStatus(m.job_id, "FAILED") ELSE jobs
            /\ storage' = IF out = "exit0_pdf"
                          THEN [storage EXCEPT ![m.job_id].output =
                                  @ \cup {PdfName(job_files[f].filename)}]
                          ELSE storage
            /\ returned' = returned \cup
                             {[chord |-> m.chord, db_file_id |-> f, status |-> row.status]}
    /\ queue' = queue \ {m}
    /\ UNCHANGED <<chords, pij, archive_runs, raised, clock, redeliveries>>

\* Lines 88-152: run the converter on the unit's file, commit the row, return
\* final_status to the chord.
convert_file_task(m) ==
    /\ m \in queue
    /\ m.task = "convert_file_task"
    /\ \E out \in Outcomes :
         LET f == m.db_file_id
             row == ConvertedRow(job_files[f], out)
         IN /\ job_files' = [job_files EXCEPT ![f] = row]
            /\ outcome' = [outcome EXCEPT ![f] = out]
            /\ storage' = IF out = "exit0_pdf"
                          THEN [storage EXCEPT ![m.job_id].output =
                                  @ \cup {PdfName(job_files[f].filename)}]
                          ELSE storage
            /\ returned' = returned \cup
                             {[chord |-> m.chord, db_file_id |-> f, status |-> row.status]}
    /\ queue' = queue \ {m}
    /\ UNCHANGED <<jobs, chords, pij, archive_runs, raised, clock, redeliveries>>

(***************************************************************************)
(* The chord: the callback is applied once, when every header task has     *)
(* returned; results are kept per header task.                             *)
(***************************************************************************)
ChordComplete(results) == \A f \in DOMAIN results : results[f] # "NONE"

\* The results list handed to the callback, in header order.
ResultList(header, results) == [i \in 1..Len(header) |-> results[header[i]]]

chord_part_return(r) ==
    /\ r \in returned
    /\ returned' = returned \ {r}
    /\ LET c == r.chord
           results == [chords[c].results EXCEPT ![r.db_file_id] = r.status]
       IN IF chords[c].fired
          THEN UNCHANGED <<chords, queue>>
          ELSE IF ChordComplete(results)
               THEN /\ chords' = [chords EXCEPT ![c].results = results, ![c].fired = TRUE]
                    /\ queue' = queue \cup
                         {ArchiveMsg(chords[c].job_id, c,
                                     ResultList(chords[c].header, results))}
               ELSE /\ chords' = [chords EXCEPT ![c].results = results]
                    /\ UNCHANGED queue
    /\ UNCHANGED <<jobs, job_files, storage, pij, outcome, archive_runs, raised,
                   clock, redeliveries>>

(***************************************************************************)
(* archive_job_task                                                        *)
(***************************************************************************)
\* The type in which the JSON serializer hands the callback its job_id, a
\* uuid.UUID when the signature was made (line 72): its string, or a UUID
\* built back from it, depending on the installed serializer.
JsonUuidWire == {"str", "UUID"}

\* Lines 162-163: a str job_id becomes a uuid.UUID; a UUID stays one.
NormalisedJobId(wire) == IF wire = "str" THEN "UUID" ELSE wire

\* JobDirArg as line 97 of convert_file_task has it: str(job_id).
JobDirArgStr(t) == "str"

\* Line 166: the value passed to os.path.join(STORAGE_PATH, job_id).
JobDirArg(t) == t

\* os.path.join takes str (or bytes, os.PathLike) components and raises
\* TypeError for anything else; uuid.UUID is none of them.
PathJoinAccepts(t) == t = "str"

\* f"{job_id}/{zip_filename}"
ZipPath(j) == ToString(j) \o "/result.zip"

\* Lines 173-181: the *.pdf files found by os.walk(output_dir).
PdfsToZip(output) == {f \in output : EndsWith(f, DotPdf)}

\* Lines 184-193: the Job row after a successful build of the archive.
ArchivedJob(job, j, files_to_zip, results, now) ==
    LET any_completed == \E i \in 1..Len(results) : results[i] = "COMPLETED"
    IN [job EXCEPT
          !.status = IF ~files_to_zip /\ ~any_completed THEN "FAILED" ELSE "COMPLETED",
          !.finished_at = ToString(now),
          !.zip_path = IF files_to_zip THEN ZipPath(j) ELSE NULL]

archive_job_task(m) ==
    /\ m \in queue
    /\ m.task = "archive_job_task"
    /\ queue' = queue \ {m}
    /\ archive_runs' = [archive_runs EXCEPT ![m.job_id] = @ + 1]
    /\ \E wire \in JsonUuidWire :
       LET j == m.job_id
       IN IF ~PathJoinAccepts(JobDirArg(NormalisedJobId(wire)))
          THEN \* TypeError at line 166, outside the try: nothing is committed
               /\ raised' = raised \cup {Exc("archive_job_task", j, "TypeError", FALSE)}
               /\ UNCHANGED <<jobs, storage, clock>>
          ELSE \E io_error \in BOOLEAN :
                 IF io_error
                 THEN \* an OSError while the archive is written: except branch,
                      \* lines 198-202; result.zip is left without members
                      /\ jobs' = SetStatus(j, "FAILED")
                      /\ storage' = [storage EXCEPT ![j].result = ZipFileOf({})]
                      /\ raised' = raised \cup {Exc("archive_job_task", j, "OSError", TRUE)}
                      /\ UNCHANGED clock
                 ELSE LET pdfs == PdfsToZip(storage[j].output)
                      IN /\ storage' = [storage EXCEPT ![j].result = ZipFileOf(pdfs)]
                         /\ jobs' = [jobs EXCEPT ![j] =
                                       ArchivedJob(jobs[j], j, pdfs # {}, m.results, clock)]
                         /\ clock' = clock + 1
                         /\ UNCHANGED raised
    /\ UNCHANGED <<job_files, chords, returned, pij, outcome, redeliveries>>

(***************************************************************************)
(* GET /api/v1/jobs/{job_id}: the Job row and its JobFile rows (job.files) *)
(* as committed when the handler runs.                                     *)
(***************************************************************************)
FileView(row) ==
    [filename |-> row.filename, status |-> row.status, error |-> row.error_message]

\* job.files: the rows of job_files whose job_id is the job's, in id order.
FilesOfJob(job_id) == SelectSeq(job_files, LAMBDA row : row.job_id = job_id)

\* Lines 59-79.
get_job_status(job_id) ==
    IF job_id \notin JobIds
    THEN [code |-> "404 Job not found"]
    ELSE [code |-> "200",
          job_id |-> job_id,
          status |-> jobs[job_id].status,
          finished_at |-> jobs[job_id].finished_at,
          files |-> [i \in 1..Len(FilesOfJob(job_id)) |-> FileView(FilesOfJob(job_id)[i])],
          download_url |-> jobs[job_id].status = "COMPLETED"]

(***************************************************************************)
(* GET /api/v1/jobs/{job_id}/download.  The handler reads and writes       *)
(* nothing: its response is a function of the committed state.             *)
(***************************************************************************)
\* The type of job.zip_path as read from the row: None for a null column.
ZipPathType(zip_path) == IF zip_path = NULL THEN "NoneType" ELSE "str"

\* Lines 86-102.  "TypeError" is os.path.join(STORAGE_PATH, None) at line 93:
\* an unhandled exception of the handler.
download_job_result(job_id) ==
    IF job_id \notin JobIds \/ jobs[job_id].status # "COMPLETED"
    THEN "400 Job not ready or failed"
    ELSE IF ~PathJoinAccepts(ZipPathType(jobs[job_id].zip_path))
         THEN "TypeError"
         ELSE IF storage[job_id].result = NoFile
              THEN "500 File missing from storage"
              ELSE "200 FileResponse"

(***************************************************************************)
(* Redelivery.  task_acks_late = True acknowledges a message only after    *)
(* the task has run, so a worker lost between the end of the task and the  *)
(* acknowledgement makes the broker deliver the same message again.        *)
(***************************************************************************)
redeliver_process(j) ==
    /\ redeliveries < MaxRedeliver
    /\ pij[j].pc = "idle"
    /\ ProcessMsg(j) \notin queue
    /\ queue' = queue \cup {ProcessMsg(j)}
    /\ redeliveries' = redeliveries + 1
    /\ UNCHANGED <<jobs, job_files, storage, chords, returned, pij, outcome,
                   archive_runs, raised, clock>>

redeliver_convert(c, f) ==
    /\ redeliveries < MaxRedeliver
    /\ f \in DOMAIN chords[c].results
    /\ chords[c].results[f] # "NONE"
    /\ ConvertMsg(chords[c].job_id, f, c) \notin queue
    /\ \A r \in returned : ~(r.chord = c /\ r.db_file_id = f)
    /\ queue' = queue \cup {ConvertMsg(chords[c].job_id, f, c)}
    /\ redeliveries' = redeliveries + 1
    /\ UNCHANGED <<jobs, job_files, storage, chords, returned, pij, outcome,
                   archive_runs, raised, clock>>

redeliver_archive(c) ==
    /\ redeliveries < MaxRedeliver
    /\ chords[c].fired
    /\ \A m \in queue : ~(m.task = "archive_job_task" /\ m.chord = c)
    /\ queue' = queue \cup
         {ArchiveMsg(chords[c].job_id, c,
                     ResultList(chords[c].header, chords[c].results))}
    /\ redeliveries' = redeliveries + 1
    /\ UNCHANGED <<jobs, job_files, storage, chords, returned, pij, outcome,
                   archive_runs, raised, clock>>

(***************************************************************************)
(* Specifications.                                                         *)
(***************************************************************************)
Next ==
    \/ \E archive \in Archives : submit_job(archive)
    \/ \E j \in JobIds : pij_extract(j)
    \/ \E j \in JobIds : pij_loop(j)
    \/ \E j \in JobIds : pij_dispatch(j)
    \/ \E m \in queue : convert_file_task(m)
    \/ \E r \in returned : chord_part_return(r)
    \/ \E m \in queue : archive_job_task(m)

\* Every message is delivered exactly once.
Spec == Init /\ [][Next]_vars

NextRedeliver ==
    \/ Next
    \/ \E j \in JobIds : redeliver_process(j)
    \/ \E c \in DOMAIN chords : \E f \in FileIds : redeliver_convert(c, f)
    \/ \E c \in DOMAIN chords : redeliver_archive(c)

\* Messages may be delivered again, up to MaxRedeliver times in all.
SpecRedeliver == Init /\ [][NextRedeliver]_vars

\* The archives that give a job units to convert.
ArchivesWithUnits == {a \in Archives : ~a.corrupt /\ DocxFiles(a.entries) # {}}

NextConcurrentJobs ==
    \/ \E archive \in ArchivesWithUnits : submit_job_upto(archive, MaxConcurrentJobs)
    \/ \E j \in JobIds : pij_extract(j)
    \/ \E j \in JobIds : pij_loop(j)
    \/ \E j \in JobIds : pij_dispatch(j)
    \/ \E m \in queue : convert_file_task(m)
    \/ \E r \in returned : chord_part_return(r)
    \/ \E m \in queue : archive_job_task(m)

\* Several jobs with units in the system at once, each message delivered once.
SpecConcurrentJobs == Init /\ [][NextConcurrentJobs]_vars

(***************************************************************************)
(* Vocabulary of the properties.                                           *)
(***************************************************************************)
Terminal == {"COMPLETED", "FAILED"}

UnitsOf(j) == {f \in FileIds : job_files[f].job_id = j}

ChordsOf(j) == {c \in DOMAIN chords : chords[c].job_id = j}

ArchiveMsgsOf(j) == {m \in queue : m.task = "archive_job_task" /\ m.job_id = j}

\* Number of archive_job_task invocations made for job j: run or still queued.
ArchiveStarts(j) == archive_runs[j] + Cardinality(ArchiveMsgsOf(j))

\* Decomposition of job j is over: process_incoming_job has run and returned.
Decomposed(j) == pij[j].pc = "idle" /\ ProcessMsg(j) \notin queue

\* No task is queued, running or waiting to be counted.
Quiescent ==
    /\ queue = {}
    /\ returned = {}
    /\ \A j \in JobIds : pij[j].pc = "idle"

\* The message the specification and the tests fix for a rejected document.
InvalidFormatMessages ==
    {"Invalid file format or corrupted document", "Invalid file format or corrupted DOCX."}

(***************************************************************************)
(* C1: for every job with a dispatched chord, archive_job_task is invoked  *)
(* at most once, is invoked only when every unit of the job has a          *)
(* persisted terminal status, and has run exactly once when no task is     *)
(* left, whatever the order in which the units complete.                   *)
(***************************************************************************)
C1_BarrierExactness ==
    \A j \in JobIds :
        ChordsOf(j) # {} =>
            /\ ArchiveStarts(j) <= 1
            /\ ArchiveStarts(j) = 1 =>
                   \A f \in UnitsOf(j) : job_files[f].status \in Terminal
            /\ Quiescent => archive_runs[j] = 1

\* Two units completed with different results, the second-created one first,
\* and the aggregator has run once.
C1_Witness ==
    \E j \in JobIds : \E c \in ChordsOf(j) :
        /\ Len(chords[c].header) = 2
        /\ archive_runs[j] = 1
        /\ job_files[chords[c].header[1]].status = "FAILED"
        /\ job_files[chords[c].header[2]].status = "COMPLETED"

(***************************************************************************)
(* C2: once no task is left to run, every submitted job has status         *)
(* COMPLETED or FAILED (no job stays IN_PROGRESS).                         *)
(***************************************************************************)
C2_EveryJobTerminates ==
    Quiescent => \A j \in JobIds : jobs[j].status \in Terminal

(***************************************************************************)
(* C3: a job's status only ever changes PENDING -> IN_PROGRESS,            *)
(* PENDING -> FAILED, IN_PROGRESS -> COMPLETED or IN_PROGRESS -> FAILED,   *)
(* also when task messages are delivered twice.                            *)
(***************************************************************************)
AllowedJobTransitions ==
    { <<"PENDING", "IN_PROGRESS">>, <<"PENDING", "FAILED">>,
      <<"IN_PROGRESS", "COMPLETED">>, <<"IN_PROGRESS", "FAILED">> }

C3_StatusNeverRegresses ==
    [][\A j \in JobIds :
          jobs'[j].status # jobs[j].status =>
              <<jobs[j].status, jobs'[j].status>> \in AllowedJobTransitions]_vars

(***************************************************************************)
(* C4: finished_at is null exactly while the job's status is PENDING or    *)
(* IN_PROGRESS, and non-null once the status is COMPLETED or FAILED.       *)
(***************************************************************************)
C4_FinishedAtIffTerminal ==
    \A j \in JobIds : (jobs[j].finished_at # NULL) <=> (jobs[j].status \in Terminal)

(***************************************************************************)
(* C5: after decomposition of a readable archive, the job has exactly one  *)
(* unit per archive entry; the units of invalid entries are FAILED with    *)
(* the fixed invalid-format message.                                       *)
(***************************************************************************)
C5_OneUnitPerEntry ==
    \A j \in JobIds :
        (Decomposed(j) /\ ~storage[j].upload.corrupt) =>
            /\ Cardinality(UnitsOf(j)) = Cardinality(storage[j].upload.entries)
            /\ \A e \in storage[j].upload.entries :
                   \E f \in UnitsOf(j) :
                       /\ job_files[f].filename = e
                       /\ ~IsDocx(e) =>
                              /\ job_files[f].status = "FAILED"
                              /\ job_files[f].error_message \in InvalidFormatMessages

(***************************************************************************)
(* C6: a readable archive without a valid entry leaves the job FAILED with *)
(* finished_at set and every entry recorded as a FAILED unit, and nothing  *)
(* is dispatched for it.                                                   *)
(***************************************************************************)
C6_NoValidUnits ==
    \A j \in JobIds :
        (/\ Decomposed(j)
         /\ ~storage[j].upload.corrupt
         /\ DocxFiles(storage[j].upload.entries) = {}) =>
            /\ jobs[j].status = "FAILED"
            /\ jobs[j].finished_at # NULL
            /\ Cardinality(UnitsOf(j)) = Cardinality(storage[j].upload.entries)
            /\ \A f \in UnitsOf(j) : job_files[f].status = "FAILED"
            /\ ChordsOf(j) = {}
            /\ ArchiveStarts(j) = 0

(***************************************************************************)
(* C7: once the aggregator has run, without an I/O error, for a job with   *)
(* a COMPLETED unit whose output exists and a FAILED unit, the job is      *)
(* COMPLETED and the result archive holds exactly the existing outputs of  *)
(* the COMPLETED units.                                                    *)
(***************************************************************************)
OutputsOfCompleted(j) ==
    {PdfName(job_files[f].filename) :
        f \in {u \in UnitsOf(j) : job_files[u].status = "COMPLETED"}}
      \cap storage[j].output

C7_PartialSuccess ==
    \A j \in JobIds :
        (/\ archive_runs[j] >= 1
         /\ Exc("archive_job_task", j, "OSError", TRUE) \notin raised
         /\ OutputsOfCompleted(j) # {}
         /\ \E f \in UnitsOf(j) : job_files[f].status = "FAILED") =>
            /\ jobs[j].status = "COMPLETED"
            /\ storage[j].result = ZipFileOf(OutputsOfCompleted(j))

(***************************************************************************)
(* C8: once the aggregator has run for a job all of whose dispatched units *)
(* are FAILED, the job is FAILED and its zip_path is null.                 *)
(***************************************************************************)
C8_AllUnitsFailed ==
    \A j \in JobIds :
        (/\ archive_runs[j] >= 1
         /\ \A f \in UnitsOf(j) : job_files[f].status = "FAILED") =>
            /\ jobs[j].status = "FAILED"
            /\ jobs[j].zip_path = NULL

C10_OutcomeMapping ==
    \A f \in FileIds :
        LET row == job_files[f]
        IN CASE outcome[f] = "none" -> TRUE
             [] outcome[f] \in {"exit0_pdf", "exit0_nopdf"} -> row.status = "COMPLETED"
             [] outcome[f] = "nonzero" ->
                    row.status = "FAILED" /\ row.error_message \in InvalidFormatMessages
             [] outcome[f] = "timeout" ->
                    row.status = "FAILED" /\ row.error_message = "Conversion timed out"
             [] OTHER ->
                    row.status = "FAILED" /\ row.error_message = LaunchErrorMsg

(***************************************************************************)
(* C11: a unit whose status is COMPLETED or FAILED keeps its status, its   *)
(* error_message and its converter outcome in every step, also when its    *)
(* convert_file_task message is delivered again, and its chord's results   *)
(* are not counted again.                                                  *)
(***************************************************************************)
C11_UnitExecutionIdempotent ==
    [][\A f \in FileIds :
          job_files[f].status \in Terminal =>
              /\ job_files'[f].status = job_files[f].status
              /\ job_files'[f].error_message = job_files[f].error_message
              /\ outcome'[f] = outcome[f]
              /\ \A c \in DOMAIN chords :
                     (f \in DOMAIN chords[c].results /\ chords[c].results[f] # "NONE") =>
                         chords'[c].results[f] = chords[c].results[f]]_vars

C13_DecompositionAtomic ==
    [][\A j \in JobIds :
          get_job_status(j).status = "IN_PROGRESS" =>
              Len(get_job_status(j)'.files) = Len(get_job_status(j).files)]_vars

(***************************************************************************)
(* C14: a convert_file_task of a job is queued or has run only when the    *)
(* job's decomposition has committed IN_PROGRESS and a unit for every      *)
(* DOCX file; a unit's result reaches the chord only after its terminal    *)
(* status is committed; and the aggregator is invoked only when every unit *)
(* of the job is terminal.                                                 *)
(***************************************************************************)
ConvertMsgsOf(j) == {m \in queue : m.task = "convert_file_task" /\ m.job_id = j}

C14_CausalOrder ==
    /\ \A j \in JobIds :
          (ConvertMsgsOf(j) # {} \/ \E f \in UnitsOf(j) : outcome[f] # "none") =>
              /\ pij[j].pc = "idle"
              /\ jobs[j].status = "IN_PROGRESS"
              /\ {job_files[f].filename : f \in UnitsOf(j)} = DocxFiles(storage[j].input)
    /\ \A r \in returned : job_files[r.db_file_id].status = r.status /\ r.status \in Terminal
    /\ \A c \in DOMAIN chords : \A f \in DOMAIN chords[c].results :
          chords[c].results[f] # "NONE" => job_files[f].status = chords[c].results[f]
    /\ \A j \in JobIds :
          ArchiveStarts(j) >= 1 => \A f \in UnitsOf(j) : job_files[f].status \in Terminal

\* One unit's result is on its way to the chord, FAILED for a launch error,
\* while its sibling is still queued.
C14_Witness ==
    \E r \in returned : \E m \in queue :
        /\ m.task = "convert_file_task"
        /\ m.chord = r.chord
        /\ outcome[r.db_file_id] = "error"
        /\ job_files[m.db_file_id].status = "PENDING"

(***************************************************************************)
(* C15: a job is dispatched at most once, with exactly one request for     *)
(* every unit created for it, and has at most one unit per file name,      *)
(* also when process_incoming_job is delivered again.                      *)
(***************************************************************************)
C15_DispatchOnce ==
    \A j \in JobIds :
        /\ Cardinality(ChordsOf(j)) <= 1
        /\ \A c \in ChordsOf(j) :
               {chords[c].header[i] : i \in 1..Len(chords[c].header)} = UnitsOf(j)
        /\ \A f, g \in UnitsOf(j) :
               job_files[f].filename = job_files[g].filename => f = g

(***************************************************************************)
(* C16: a run of convert_file_task for a unit changes that unit's status   *)
(* and error_message and nothing else of the store: the jobs table, the    *)
(* other units, the unit's job_id and filename stay as they are, and its   *)
(* siblings' requests and the chords are left in place.                    *)
(***************************************************************************)
C16_UnitOutcomeLocal ==
    [][\A m \in queue :
          (m.task = "convert_file_task" /\ m \notin queue') =>
              /\ jobs' = jobs
              /\ Len(job_files') = Len(job_files)
              /\ \A f \in FileIds : f # m.db_file_id => job_files'[f] = job_files[f]
              /\ job_files'[m.db_file_id].job_id = job_files[m.db_file_id].job_id
              /\ job_files'[m.db_file_id].filename = job_files[m.db_file_id].filename
              /\ queue' = queue \ {m}
              /\ chords' = chords]_vars

\* A unit timed out, its sibling was converted afterwards all the same, the
\* aggregator was invoked and the job row is as decomposition left it.
C16_Witness ==
    \E c \in DOMAIN chords :
        /\ Len(chords[c].header) = 2
        /\ outcome[chords[c].header[1]] = "timeout"
        /\ outcome[chords[c].header[2]] = "exit0_pdf"
        /\ archive_runs[chords[c].job_id] = 1
        /\ jobs[chords[c].job_id] = [NewJob EXCEPT !.status = "IN_PROGRESS"]

(***************************************************************************)
(* C17: a job whose process_incoming_job ended in the except branch is     *)
(* FAILED, has no unit record and has nothing dispatched.                  *)
(***************************************************************************)
C17_FailedDecompositionLeavesNoUnits ==
    \A j \in JobIds :
        (\E x \in raised : x.task = "process_incoming_job" /\ x.job_id = j) =>
            /\ jobs[j].status = "FAILED"
            /\ UnitsOf(j) = {}
            /\ ChordsOf(j) = {}
            /\ ConvertMsgsOf(j) = {}

(***************************************************************************)
(* C18: in every committed state, a job that is COMPLETED or FAILED has no *)
(* unit with status PENDING.                                               *)
(***************************************************************************)
C18_TerminalJobHasNoPendingUnit ==
    \A j \in JobIds :
        jobs[j].status \in Terminal =>
            \A f \in UnitsOf(j) : job_files[f].status # "PENDING"

(***************************************************************************)
(* C19: after every step, a unit with an error_message is FAILED, and a    *)
(* unit's status changes only from PENDING to COMPLETED or to FAILED,      *)
(* also when the unit is executed more than once.                          *)
(***************************************************************************)
C19_UnitRowWellFormed ==
    [][/\ \A f \in 1..Len(job_files') :
             job_files'[f].error_message # NULL => job_files'[f].status = "FAILED"
       /\ \A f \in FileIds :
             job_files'[f].status # job_files[f].status =>
                 /\ job_files[f].status = "PENDING"
                 /\ job_files'[f].status \in Terminal]_vars

(***************************************************************************)
(* C20: once the aggregator has run, without an I/O error, for a job whose *)
(* output directory holds no PDF, the job is FAILED and its zip_path is    *)
(* null, also when units of the job are COMPLETED.                         *)
(***************************************************************************)
C20_NoOutputMeansFailed ==
    \A j \in JobIds :
        (/\ archive_runs[j] >= 1
         /\ Exc("archive_job_task", j, "OSError", TRUE) \notin raised
         /\ PdfsToZip(storage[j].output) = {}) =>
            /\ jobs[j].status = "FAILED"
            /\ jobs[j].zip_path = NULL

(***************************************************************************)
(* C21: a job for which archive_job_task raised an exception is FAILED,    *)
(* with zip_path null and finished_at set, and archive_job_task is not     *)
(* invoked for it a second time.                                           *)
(***************************************************************************)
ArchiveExceptionsOf(j) == {x \in raised : x.task = "archive_job_task" /\ x.job_id = j}

C21_ArchiveExceptionIsTerminal ==
    \A j \in JobIds :
        ArchiveExceptionsOf(j) # {} =>
            /\ jobs[j].status = "FAILED"
            /\ jobs[j].zip_path = NULL
            /\ jobs[j].finished_at # NULL
            /\ ArchiveStarts(j) = 1

(***************************************************************************)
(* C22: two convert_file_task executions that can run at the same time for *)
(* different units, of one job or of two, are given different              *)
(* UserInstallation directories, and so are any two different units of the *)
(* job_files table.                                                        *)
(***************************************************************************)
\* The convert_file_task messages delivered and not yet acknowledged.
ConvertMsgs == {m \in queue : m.task = "convert_file_task"}

C22_ScratchDirInjective ==
    /\ \A m, n \in ConvertMsgs :
          m.db_file_id # n.db_file_id =>
              UserInstallation(m.job_id, m.db_file_id)
                  # UserInstallation(n.job_id, n.db_file_id)
    /\ \A f, g \in FileIds :
          f # g => UserInstallation(job_files[f].job_id, f)
                       # UserInstallation(job_files[g].job_id, g)

\* Three executions are pending at once, two for the units of one job and one
\* for a unit of another job, after a unit of the store has been converted.
C22_Witness ==
    \E m, n, o \in ConvertMsgs :
        /\ m.job_id = n.job_id
        /\ m.db_file_id # n.db_file_id
        /\ o.job_id # m.job_id
        /\ \E f \in FileIds : outcome[f] # "none"

====
